---- MODULE Spec2Model ----
(***************************************************************************)
(* Dealer-market simulation (core/simulation.py, core/agents_mm.py,        *)
(* core/market.py, core/agents_investor.py, utils/math_utils.py).          *)
(*                                                                         *)
(* Fixed-point conventions: prices, spreads and revenues per unit volume   *)
(* are integers in units of 1e-7 (so mid 100.0 is 1000000000 and the tier  *)
(* penalty 1e-4 is 1000); volumes and positions are integers in units of   *)
(* 1.0.  The tolerances 1e-9, 1e-6 and 1e-4 of the code lie strictly       *)
(* between 0 and one unit, so "abs(x) < tol" is "x = 0" and "x > tol" is   *)
(* "x >= 1" on these grids.                                                *)
(***************************************************************************)
EXTENDS Integers, Sequences, FiniteSets, TLC

(* ------------------------------ bounds --------------------------------- *)
MaxMM == 2
MaxInv == 2
MaxSteps == 5

(* ------------------- core/config.py (units of 1e-7) -------------------- *)
V_MAX == 10000
S0_MIN == 200
S0_MAX == 5000
NUM_TIERS == 5
MM_DELTA_TIER == 1000
TM_DELAY == 4
(* the value run_internalization_experiment assigns to cfg.MM_DELTA_TIER    *)
(* in its last statement (4.0, in units of 1e-7)                           *)
MM_DELTA_TIER_RESTORED == 40000000

(* MarketMaker.__init__ defaults: alpha = 1.5 (in halves), gamma = 0.5     *)
(* (in thousandths), n_max = 20, sigma_est = 0.01 (in units of 1e-4).      *)
ALPHA_HALVES == 3
GAMMA_MILLI == 500
N_MAX == 20
SIGMA_EST_E4 == 100

(* MarketEnvironment.__init__: mid_price = 100.0 *)
MID_INIT == 1000000000

(* ------------------------------ helpers -------------------------------- *)
Abs(x) == IF x < 0 THEN -x ELSE x
Sign(x) == IF x > 0 THEN 1 ELSE IF x < 0 THEN -1 ELSE 0
Min2(a, b) == IF a <= b THEN a ELSE b

(* a * b / c for a, b >= 0, c > 0, without forming a * b when it is large *)
MulDiv(a, b, c) == a * (b \div c) + (a * (b % c)) \div c

(* floor(sqrt(n)) by Newton's iteration from a start x >= sqrt(n) *)
RECURSIVE ISqrtFrom(_, _)
ISqrtFrom(n, x) ==
    LET y == (x + n \div x) \div 2
    IN IF y >= x THEN x ELSE ISqrtFrom(n, y)
ISqrt(n) == IF n <= 0 THEN 0 ELSE ISqrtFrom(n, (n + 1000000) \div 2000 + 1)

(* agent ids: f"MM_{i}", f"INV_{i}"; None for the inv_id of a hedge record *)
MMId(i) == <<"MM", i>>
InvId(i) == <<"INV", i>>
None == <<"None", 0>>

(* values the model draws for the exogenous inputs *)
Vols == {20, 40}
Moves == {-1000, 0, 1000}
S0Values == {S0_MIN, S0_MAX}
Requests == {<<0, 0>>} \cup (Vols \X {1, -1})
(* volumes just above the cut-off 1e-9 of the reference curve, in units    *)
(* of 1e-10: 1.1e-9, 2e-9 and 1e-8                                         *)
TinyVols == {11, 20, 100}
(* the optimizer's x[0] as a fraction <<num, den>> within its bounds [0,1] *)
X0Values == {<<1, N_MAX>>, <<1, 1>>}

(* --------------------------- core/market.py ---------------------------- *)
(* (omega / v_tilde) * (1 - (1 - v_tilde) ** (1 / omega)) for omega = -1.5 *)
(* (LAMBDA_LOB = 1.6), in thousandths, tabulated at v_tilde = k / 10 and   *)
(* at the cap 0.999, interpolated linearly in between; vt in thousandths.  *)
LobKnot(k) ==
    CASE k = 0 -> 1000 [] k = 1 -> 1091 [] k = 2 -> 1203 [] k = 3 -> 1342
      [] k = 4 -> 1521 [] k = 5 -> 1762 [] k = 6 -> 2105 [] k = 7 -> 2639
      [] k = 8 -> 3608 [] k = 9 -> 6069 [] OTHER -> 148649
LobFactorMilli(vt) ==
    LET k == vt \div 100
        lo == LobKnot(k)
        hi == LobKnot(k + 1)
        w == IF k = 9 THEN 99 ELSE 100
    IN lo + ((hi - lo) * (vt - 100 * k)) \div w

get_reference_price_curve(s0, v) ==
    IF v <= 0 THEN s0 \div 2
    ELSE LET vt0 == (v * 1000) \div V_MAX
             vt == IF vt0 >= 999 THEN 999 ELSE vt0
             base == s0 \div 2
         IN MulDiv(base, LobFactorMilli(vt), 1000)

(* The same curve as the double-precision arithmetic of lines 88-90       *)
(* evaluates it for a volume just above the cut-off 1e-9, the volume given *)
(* in units of 1e-10 (11 is 1.1e-9).  v_tilde = v10 * 1e-14 is far below   *)
(* one unit in the last place of 1.0, so the two roundings decide the      *)
(* result: 1.0 - v_tilde is rounded to 1 - k * 2^-53 (2^53 * 1e-14 =       *)
(* 90.0720), the power (1 - k * 2^-53) ** (-2/3) = 1 + (2k/3) * 2^-53 is   *)
(* rounded to 1 + j * 2^-52, the subtraction 1.0 - term is exact, and the  *)
(* factor is 1.5 * j * 2^-52 / v_tilde (1.5e3 * 1e14 / 2^52 = 33.307), in  *)
(* thousandths.                                                            *)
RoundDiv(a, b) == (2 * a + b) \div (2 * b)
LobFactorMilliFloat(v10) ==
    LET k == RoundDiv(v10 * 900720, 10000)
        j == RoundDiv(k, 3)
    IN (j * 33307) \div (v10 * 1000)

get_reference_price_curve_float(s0, v10) ==
    IF v10 <= 10 THEN s0 \div 2
    ELSE MulDiv(s0 \div 2, LobFactorMilliFloat(v10), 1000)

(* -------------------------- core/agents_mm.py -------------------------- *)
(* ratio ** alpha in thousandths, alpha given in halves *)
RECURSIVE PowMilli(_, _)
PowMilli(r, n) == IF n = 0 THEN 1000 ELSE MulDiv(PowMilli(r, n - 1), r, 1000)
PowAlphaMilli(ratio, halves) ==
    LET whole == PowMilli(ratio, halves \div 2)
    IN IF halves % 2 = 0 THEN whole
       ELSE MulDiv(whole, ISqrt(ratio * 1000), 1000)

(* mutant: an unknown investor is quoted as the best tier *)
TierOfDefaultBest(tiers, id) == IF id \in DOMAIN tiers THEN tiers[id] ELSE 0

TierOf(tiers, id) == IF id \in DOMAIN tiers THEN tiers[id] ELSE NUM_TIERS - 1

(* mutant: the tier penalty is granted as a discount *)
get_quote_spread_discount(tiers, s0, id, volume) ==
    LET tier == TierOf(tiers, id)
        s_ref_v == get_reference_price_curve(s0, volume)
        s_ref_0 == get_reference_price_curve(s0, 0)
        ratio == IF s_ref_0 <= 0 THEN 1000 ELSE (s_ref_v * 1000) \div s_ref_0
        base == MulDiv(s_ref_0, PowAlphaMilli(ratio, ALPHA_HALVES), 1000)
        penalty == MM_DELTA_TIER * tier
    IN base - penalty

get_quote_spread(tiers, s0, id, volume) ==
    LET tier == TierOf(tiers, id)
        s_ref_v == get_reference_price_curve(s0, volume)
        s_ref_0 == get_reference_price_curve(s0, 0)
        ratio == IF s_ref_0 <= 0 THEN 1000 ELSE (s_ref_v * 1000) \div s_ref_0
        base == MulDiv(s_ref_0, PowAlphaMilli(ratio, ALPHA_HALVES), 1000)
        penalty == MM_DELTA_TIER * tier
    IN base + penalty

(* get_quote_spread for a volume given in units of 1e-10, the reference    *)
(* curve being evaluated in double precision                               *)
get_quote_spread_float(tiers, s0, id, v10) ==
    LET tier == TierOf(tiers, id)
        s_ref_v == get_reference_price_curve_float(s0, v10)
        s_ref_0 == get_reference_price_curve(s0, 0)
        ratio == IF s_ref_0 <= 0 THEN 1000 ELSE (s_ref_v * 1000) \div s_ref_0
        base == MulDiv(s_ref_0, PowAlphaMilli(ratio, ALPHA_HALVES), 1000)
        penalty == MM_DELTA_TIER * tier
    IN base + penalty

(* mutant: the skew has the sign of the position *)
SkewWithPosition(pos) ==
    LET k == (GAMMA_MILLI * SIGMA_EST_E4 * SIGMA_EST_E4) \div 100
    IN Sign(pos) * ((k * Abs(pos)) \div 100)

(* skew = - gamma * sigma_est ** 2 * net_position *)
Skew(pos) ==
    LET k == (GAMMA_MILLI * SIGMA_EST_E4 * SIGMA_EST_E4) \div 100
    IN 0 - Sign(pos) * ((k * Abs(pos)) \div 100)

get_quoted_price(tiers, pos, mid, s0, id, volume, direction) ==
    LET half_spread == get_quote_spread(tiers, s0, id, volume)
    IN mid + Skew(pos) + direction * half_spread

(* calculate_hedge_quantity: (hedge_size, direction) for the solver's x0 *)
(* mutant: the hedge adds to the position *)
calculate_hedge_quantity_same_side(pos, x0) ==
    IF pos = 0 THEN <<0, 0>>
    ELSE <<(x0[1] * Abs(pos)) \div x0[2], Sign(pos)>>

(* mutant: no early return for a flat position *)
calculate_hedge_quantity_no_guard(pos, x0) ==
    <<(x0[1] * Abs(pos)) \div x0[2], IF pos > 0 THEN -1 ELSE 1>>

calculate_hedge_quantity(pos, x0) ==
    IF pos = 0 THEN <<0, 0>>
    ELSE <<(x0[1] * Abs(pos)) \div x0[2], 0 - Sign(pos)>>

(* update_investor_yield on the insertion-ordered mapping (a sequence of   *)
(* [id, ema] entries); yields in units of 1e-7 per unit volume.            *)
HasYield(ema, id) == \E k \in 1..Len(ema) : ema[k].id = id
YieldIdx(ema, id) == CHOOSE k \in 1..Len(ema) : ema[k].id = id
DivTrunc(a, b) == Sign(a) * (Abs(a) \div b)
(* mutant: the first observation is blended with a prior of 0 *)
update_investor_yield_blend_first(ema, id, total_revenue, volume) ==
    IF Abs(volume) = 0 THEN ema
    ELSE LET y_trade == DivTrunc(total_revenue, Abs(volume))
         IN IF ~HasYield(ema, id) THEN Append(ema, [id |-> id, ema |-> DivTrunc(y_trade, 10)])
            ELSE LET k == YieldIdx(ema, id)
                     prev == ema[k].ema
                 IN [ema EXCEPT ![k].ema = DivTrunc(9 * prev + y_trade, 10)]

(* mutant: a zero volume is recorded as a yield of 0 *)
update_investor_yield_no_guard(ema, id, total_revenue, volume) ==
    LET y_trade == IF Abs(volume) = 0 THEN 0 ELSE DivTrunc(total_revenue, Abs(volume))
    IN IF ~HasYield(ema, id) THEN Append(ema, [id |-> id, ema |-> y_trade])
       ELSE LET k == YieldIdx(ema, id)
                prev == ema[k].ema
            IN [ema EXCEPT ![k].ema = DivTrunc(9 * prev + y_trade, 10)]

update_investor_yield(ema, id, total_revenue, volume) ==
    IF Abs(volume) = 0 THEN ema
    ELSE LET y_trade == DivTrunc(total_revenue, Abs(volume))
         IN IF ~HasYield(ema, id) THEN Append(ema, [id |-> id, ema |-> y_trade])
            ELSE LET k == YieldIdx(ema, id)
                     prev == ema[k].ema
                 IN [ema EXCEPT ![k].ema = DivTrunc(9 * prev + y_trade, 10)]

(* sorted(items, key = yield, reverse = True): stable, descending *)
(* an unstable variant: an entry is placed before the entries of equal     *)
(* yield                                                                   *)
RECURSIVE InsertDescBeforeEqual(_, _)
InsertDescBeforeEqual(sorted, e) ==
    IF sorted = <<>> THEN <<e>>
    ELSE IF Head(sorted).ema > e.ema
         THEN <<Head(sorted)>> \o InsertDescBeforeEqual(Tail(sorted), e)
    ELSE <<e>> \o sorted

RECURSIVE InsertDesc(_, _)
InsertDesc(sorted, e) ==
    IF sorted = <<>> THEN <<e>>
    ELSE IF Head(sorted).ema >= e.ema THEN <<Head(sorted)>> \o InsertDesc(Tail(sorted), e)
    ELSE <<e>> \o sorted
RECURSIVE SortDesc(_)
SortDesc(s) == IF s = <<>> THEN <<>> ELSE InsertDesc(SortDesc(SubSeq(s, 1, Len(s) - 1)), s[Len(s)])

RECURSIVE SortDescBeforeEqual(_)
SortDescBeforeEqual(s) ==
    IF s = <<>> THEN <<>>
    ELSE InsertDescBeforeEqual(SortDescBeforeEqual(SubSeq(s, 1, Len(s) - 1)), s[Len(s)])

(* mutant: ranks counted from 1 *)
TierOfRankFromOne(rank, n) == ((rank + 1) * NUM_TIERS) \div n

(* tier = min(int(rank / n * NUM_TIERS), NUM_TIERS - 1) *)
TierOfRank(rank, n) == Min2((rank * NUM_TIERS) \div n, NUM_TIERS - 1)

(* mutant: the investors ranked by ascending yield *)
update_tiering_ascending(tiers, ema) ==
    IF ema = <<>> THEN tiers
    ELSE LET sorted_investors == SortDesc(ema)
             n == Len(sorted_investors)
             ids == {sorted_investors[k].id : k \in 1..n}
             rankOf(id) == n - (CHOOSE k \in 1..n : sorted_investors[k].id = id)
         IN [id \in (DOMAIN tiers) \cup ids |->
               IF id \in ids THEN TierOfRank(rankOf(id), n) ELSE tiers[id]]

(* mutant: the sort is not stable, equal yields come out in reverse order *)
update_tiering_unstable(tiers, ema) ==
    IF ema = <<>> THEN tiers
    ELSE LET sorted_investors == SortDescBeforeEqual(ema)
             n == Len(sorted_investors)
             ids == {sorted_investors[k].id : k \in 1..n}
             rankOf(id) == (CHOOSE k \in 1..n : sorted_investors[k].id = id) - 1
         IN [id \in (DOMAIN tiers) \cup ids |->
               IF id \in ids THEN TierOfRank(rankOf(id), n) ELSE tiers[id]]

(* update_tiering: the tiers after the call *)
update_tiering(tiers, ema) ==
    IF ema = <<>> THEN tiers
    ELSE LET sorted_investors == SortDesc(ema)
             n == Len(sorted_investors)
             ids == {sorted_investors[k].id : k \in 1..n}
             rankOf(id) == (CHOOSE k \in 1..n : sorted_investors[k].id = id) - 1
         IN [id \in (DOMAIN tiers) \cup ids |->
               IF id \in ids THEN TierOfRank(rankOf(id), n) ELSE tiers[id]]

(* ------------------------- core/simulation.py -------------------------- *)
VARIABLES
    num_mm, num_inv,                 \* len(market_makers), len(investors)
    step_count, mid_price, current_s0,   \* market_env
    net_position, investor_tiers, investor_yield_ema,   \* per market-maker
    history, trade_queue, rewards,
    steps_left,                      \* iterations of run() still to do
    pc,                              \* position inside step()
    inv_idx, hedge_idx,              \* loop positions of phases 2 and 3
    current_step_trades, step_log,   \* locals of step()
    req,                             \* the current investor's request (<<0, 0>> for None)
    ret                              \* the last direct call of a MarketMaker method and its result

vars == <<num_mm, num_inv, step_count, mid_price, current_s0, net_position,
          investor_tiers, investor_yield_ema, history, trade_queue, rewards,
          steps_left, pc, inv_idx, hedge_idx, current_step_trades, step_log, req, ret>>

MMs == 0..(num_mm - 1)

(* no method has been called directly *)
NoCall == [op |-> "none", seq |-> 0]

EmptyLog == [time |-> 0, mid_price |-> 0, investor_trades |-> <<>>, hedge_trades |-> <<>>]

(* DealerMarketSimulation.__init__, MarketEnvironment.__init__, MarketMaker.__init__ *)
Init ==
    /\ num_mm \in 0..MaxMM
    /\ num_inv \in 0..MaxInv
    /\ step_count = 0
    /\ mid_price = MID_INIT
    /\ current_s0 \in S0Values
    /\ net_position = [m \in MMs |-> 0]
    /\ investor_tiers = [m \in MMs |-> <<>>]
    /\ investor_yield_ema = [m \in MMs |-> <<>>]
    /\ history = <<>>
    /\ trade_queue = <<>>
    /\ rewards = [m \in MMs |-> <<>>]
    /\ steps_left = 0
    /\ pc = "idle"
    /\ inv_idx = 0
    /\ hedge_idx = 0
    /\ current_step_trades = <<>>
    /\ step_log = EmptyLog
    /\ req = <<0, 0>>
    /\ ret = NoCall

(* run(steps = n): n calls of step() *)
Run(n) ==
    /\ pc = "idle"
    /\ steps_left = 0
    /\ n >= 1
    /\ step_count + n <= MaxSteps
    /\ steps_left' = n
    /\ UNCHANGED <<ret, num_mm, num_inv, step_count, mid_price, current_s0, net_position,
                   investor_tiers, investor_yield_ema, history, trade_queue, rewards,
                   pc, inv_idx, hedge_idx, current_step_trades, step_log, req>>

(* step(), phase 0: market_env.step() and the fresh locals *)
MarketStep ==
    /\ pc = "idle"
    /\ steps_left > 0
    /\ \E move \in Moves, s0 \in S0Values :
          /\ mid_price' = mid_price + move
          /\ current_s0' = s0
          /\ step_log' = [time |-> step_count + 1, mid_price |-> mid_price + move,
                          investor_trades |-> <<>>, hedge_trades |-> <<>>]
    /\ step_count' = step_count + 1
    /\ current_step_trades' = <<>>
    /\ req' = <<0, 0>>
    /\ pc' = "tiering"
    /\ UNCHANGED <<ret, num_mm, num_inv, net_position, investor_tiers, investor_yield_ema,
                   history, trade_queue, rewards, steps_left, inv_idx, hedge_idx>>

PcAfterInvestors == IF num_mm > 0 THEN "hedging" ELSE "settle"
PcAfterTiering == IF num_inv > 0 THEN "investors" ELSE PcAfterInvestors

(* step(), phase 1 *)
UpdateTiering ==
    /\ pc = "tiering"
    /\ investor_tiers' = [m \in MMs |-> update_tiering(investor_tiers[m], investor_yield_ema[m])]
    /\ inv_idx' = 0
    /\ hedge_idx' = 0
    /\ pc' = PcAfterTiering
    /\ UNCHANGED <<ret, num_mm, num_inv, step_count, mid_price, current_s0, net_position,
                   investor_yield_ema, history, trade_queue, rewards, steps_left,
                   current_step_trades, step_log, req>>

(* the quote market-maker m gives investor i *)
Quote(m, i, vol, direction) ==
    get_quoted_price(investor_tiers[m], net_position[m], mid_price, current_s0,
                     InvId(i), vol, direction)

(* quotes: the price of every market-maker for one request *)
Quotes(i, vol, direction) == [m \in MMs |-> Quote(m, i, vol, direction)]

(* mutant: the sort order of the two branches exchanged *)
BestPriceSwapped(quotes, direction) ==
    IF direction = 1
    THEN CHOOSE p \in {quotes[m] : m \in DOMAIN quotes} : \A m \in DOMAIN quotes : p >= quotes[m]
    ELSE CHOOSE p \in {quotes[m] : m \in DOMAIN quotes} : \A m \in DOMAIN quotes : p <= quotes[m]

(* quotes[0][0] after the sort: min for a buyer, max for a seller *)
BestPrice(quotes, direction) ==
    IF direction = 1
    THEN CHOOSE p \in {quotes[m] : m \in DOMAIN quotes} : \A m \in DOMAIN quotes : p <= quotes[m]
    ELSE CHOOSE p \in {quotes[m] : m \in DOMAIN quotes} : \A m \in DOMAIN quotes : p >= quotes[m]

(* best_mms: abs(p - best_price) < 1e-9 *)
BestMMs(quotes, best_price) ==
    {m \in DOMAIN quotes : Abs(quotes[m] - best_price) = 0}

(* mutant: the first of the tied market-makers in iteration order *)
FirstChoice(S) == {m \in S : \A k \in S : m <= k}

(* np.random.choice(best_mms) *)
RandomChoice(S) == S

(* Investor.generate_trade_request: None, or (vol > 0, direction +/- 1) *)
generate_trade_request == Requests

(* mutant: the market-maker is booked on the investor's side *)
MMSignedVolSameSide(direction, vol) == direction * vol

(* mm_signed_vol = -direction * vol *)
MMSignedVol(direction, vol) == (0 - direction) * vol

(* step(), phase 2: one iteration of the loop over investors *)
InvestorTrade ==
    /\ pc = "investors"
    /\ inv_idx < num_inv
    /\ \E r \in generate_trade_request :
         LET vol == r[1]
             direction == r[2]
             nextPc == IF inv_idx + 1 < num_inv THEN "investors" ELSE PcAfterInvestors
         IN /\ req' = r
            /\ IF direction = 0
               THEN /\ inv_idx' = inv_idx + 1
                    /\ pc' = nextPc
                    /\ UNCHANGED <<net_position, current_step_trades, step_log>>
               ELSE IF num_mm = 0
               THEN /\ pc' = "raised"
                    /\ UNCHANGED <<inv_idx, net_position, current_step_trades, step_log>>
               ELSE \E quotes \in {Quotes(inv_idx, vol, direction)} :
                    \E best_price \in {BestPrice(quotes, direction)} :
                    \E best_mm \in RandomChoice(BestMMs(quotes, best_price)) :
                      LET exec_price == best_price
                          mm_signed_vol == MMSignedVol(direction, vol)
                          spread_revenue == mm_signed_vol * (mid_price - exec_price)
                          trade_record == [mm_id |-> MMId(best_mm), inv_id |-> InvId(inv_idx),
                                           vol |-> mm_signed_vol, abs_vol |-> vol,
                                           spread_rev |-> spread_revenue,
                                           price_at_trade |-> mid_price, step |-> step_count]
                      IN /\ net_position' = [net_position EXCEPT ![best_mm] = @ + mm_signed_vol]
                         /\ current_step_trades' = Append(current_step_trades, trade_record)
                         /\ step_log' = [step_log EXCEPT !.investor_trades =
                                           Append(@, [inv |-> InvId(inv_idx), mm |-> MMId(best_mm),
                                                      vol |-> mm_signed_vol, price |-> exec_price])]
                         /\ inv_idx' = inv_idx + 1
                         /\ pc' = nextPc
    /\ UNCHANGED <<ret, num_mm, num_inv, step_count, mid_price, current_s0, investor_tiers,
                   investor_yield_ema, history, trade_queue, rewards, steps_left, hedge_idx>>

(* mutant: the quoting market-maker adds the size of its inventory skew *)
HedgeSpreadWithSkew(other, m, vol) ==
    get_quote_spread(investor_tiers[other], current_s0, MMId(m), vol)
        + Abs(Skew(net_position[other]))

(* the spread market-maker other quotes market-maker m for a hedge *)
HedgeSpread(other, m, vol) ==
    get_quote_spread(investor_tiers[other], current_s0, MMId(m), vol)

(* solve_almgren_chriss, lines 28-30: the optimizer runs unless z < 1e-9 *)
InvokesOptimizer(z) == z > 0

(* mutant: the optimizer ignores the bounds (0, 1) of its variables *)
minimize_unbounded ==
    {[success |-> TRUE, x0 |-> x] : x \in X0Values \cup {<<3, 2>>}}
        \cup {[success |-> FALSE, x0 |-> <<1, 2>>]}

(* scipy's minimize(...): the result object, success with some x[0] or a   *)
(* failure holding whatever iterate it stopped at                          *)
minimize ==
    {[success |-> TRUE, x0 |-> x] : x \in X0Values} \cup {[success |-> FALSE, x0 |-> <<1, 2>>]}

(* mutant: the optimizer's iterate is returned whether or not it succeeded *)
SolverReturnUnchecked(z, res) ==
    IF ~InvokesOptimizer(z) THEN <<0, 1>> ELSE res.x0

(* solve_almgren_chriss, lines 28-30 and 81-85, for the result res of the  *)
(* optimizer: a fraction <<numerator, denominator>>                        *)
SolverReturn(z, res) ==
    IF ~InvokesOptimizer(z) THEN <<0, 1>>
    ELSE IF res.success THEN res.x0
    ELSE <<1, N_MAX>>

(* solve_almgren_chriss: 0 for z < 1e-9, else x[0] of the optimizer on     *)
(* success and 1 / n_steps otherwise                                       *)
solve_almgren_chriss(z) == {SolverReturn(z, res) : res \in minimize}

(* calculate_hedge_quantity, lines 109-116: the solver (and through it the *)
(* competitor cost function) is called unless |net_position| < 1e-6        *)
CallsSolver(pos) == Abs(pos) > 0

(* the x0 calculate_hedge_quantity works with: the solver's result, or     *)
(* none (a placeholder) when it returns before line 116                    *)
HedgeX0(pos) == IF CallsSolver(pos) THEN solve_almgren_chriss(Abs(pos)) ELSE {<<0, 1>>}

(* the loop of lines 155-160: first of the others with the strictly lowest *)
(* spread; -1 stands for best_maker = None                                 *)
(* mutant: the hedging market-maker is a candidate itself *)
BestMakerAny(m, hedge_vol) ==
    LET s == [o \in MMs |-> HedgeSpread(o, m, hedge_vol)]
    IN CHOOSE o \in MMs : \A o2 \in MMs : s[o] < s[o2] \/ (s[o] = s[o2] /\ o <= o2)

(* mutant: a market-maker with no competitor is its own counterparty *)
BestMakerSelfWhenAlone(m, hedge_vol) ==
    LET others == MMs \ {m}
        s == [o \in others |-> HedgeSpread(o, m, hedge_vol)]
    IN IF others = {} THEN m
       ELSE CHOOSE o \in others : \A o2 \in others :
               s[o] < s[o2] \/ (s[o] = s[o2] /\ o <= o2)

BestMaker(m, hedge_vol) ==
    LET others == MMs \ {m}
        s == [o \in others |-> HedgeSpread(o, m, hedge_vol)]
    IN IF others = {} THEN -1
       ELSE CHOOSE o \in others : \A o2 \in others :
               s[o] < s[o2] \/ (s[o] = s[o2] /\ o <= o2)

(* mutant: the maker is booked on the taker's side *)
MakerVolSameSide(taker_vol_signed) == taker_vol_signed

(* maker_vol_signed = -taker_vol_signed *)
MakerVol(taker_vol_signed) == 0 - taker_vol_signed

(* the signed volume the hedge records of this step (inv_id None) have     *)
(* booked on market-maker id so far                                        *)
RECURSIVE HedgedSoFar(_, _)
HedgedSoFar(trades, id) ==
    IF trades = <<>> THEN 0
    ELSE (IF Head(trades).mm_id = id /\ Head(trades).inv_id = None
          THEN Head(trades).vol ELSE 0)
         + HedgedSoFar(Tail(trades), id)

(* mutant: every market-maker hedges the position it had when the hedging  *)
(* phase began                                                             *)
HedgePositionAtPhaseStart(m) ==
    net_position[m] - HedgedSoFar(current_step_trades, MMId(m))

(* self.net_position as calculate_hedge_quantity reads it (agents_mm.py    *)
(* line 109) when the loop of line 132 reaches market-maker m: the live    *)
(* attribute, which lines 172-173 of earlier iterations have changed       *)
HedgePosition(m) == net_position[m]

(* step(), phase 3: one iteration of the loop over market-makers *)
Hedge ==
    /\ pc = "hedging"
    /\ hedge_idx < num_mm
    /\ \E x0 \in HedgeX0(HedgePosition(hedge_idx)) :
         LET mm == hedge_idx
             hq == calculate_hedge_quantity(HedgePosition(mm), x0)
             hedge_vol == hq[1]
             direction_h == hq[2]
             best_maker == BestMaker(mm, hedge_vol)
         IN IF hedge_vol >= 1 /\ best_maker # -1
            THEN LET best_maker_spread == HedgeSpread(best_maker, mm, hedge_vol)
                     taker_vol_signed == direction_h * hedge_vol
                     maker_vol_signed == MakerVol(taker_vol_signed)
                     taker_rec == [mm_id |-> MMId(mm), inv_id |-> None,
                                   vol |-> taker_vol_signed, abs_vol |-> hedge_vol,
                                   spread_rev |-> 0, price_at_trade |-> mid_price,
                                   step |-> step_count]
                     maker_rec == [mm_id |-> MMId(best_maker), inv_id |-> None,
                                   vol |-> maker_vol_signed, abs_vol |-> hedge_vol,
                                   spread_rev |-> best_maker_spread * hedge_vol,
                                   price_at_trade |-> mid_price, step |-> step_count]
                 IN /\ net_position' = [net_position EXCEPT
                                          ![mm] = @ + taker_vol_signed,
                                          ![best_maker] = @ + maker_vol_signed]
                    /\ current_step_trades' = current_step_trades \o <<taker_rec, maker_rec>>
                    /\ step_log' = [step_log EXCEPT !.hedge_trades =
                                      Append(@, [taker |-> MMId(mm), maker |-> MMId(best_maker),
                                                 vol |-> taker_vol_signed,
                                                 spread_paid |-> best_maker_spread * hedge_vol])]
            ELSE UNCHANGED <<net_position, current_step_trades, step_log>>
    /\ hedge_idx' = hedge_idx + 1
    /\ pc' = IF hedge_idx + 1 < num_mm THEN "hedging" ELSE "settle"
    /\ UNCHANGED <<ret, num_mm, num_inv, step_count, mid_price, current_s0, investor_tiers,
                   investor_yield_ema, history, trade_queue, rewards, steps_left, inv_idx,
                   req>>

(* sums of the aggregation loops, lines 231-247 *)
RECURSIVE SpreadRev(_, _, _)
SpreadRev(trades, id, mid) ==
    IF trades = <<>> THEN 0
    ELSE (IF Head(trades).mm = id
          THEN Abs(Head(trades).price - mid) * Abs(Head(trades).vol) ELSE 0)
         + SpreadRev(Tail(trades), id, mid)

RECURSIVE HedgeCost(_, _)
HedgeCost(trades, id) ==
    IF trades = <<>> THEN 0
    ELSE (IF Head(trades).taker = id THEN Head(trades).spread_paid ELSE 0)
         + HedgeCost(Tail(trades), id)

PosRevOf(t, mid) == t.vol * (mid - t.price_at_trade)

RECURSIVE PosRev(_, _, _)
PosRev(trades, id, mid) ==
    IF trades = <<>> THEN 0
    ELSE (IF Head(trades).mm_id = id THEN PosRevOf(Head(trades), mid) ELSE 0)
         + PosRev(Tail(trades), id, mid)

(* the update_investor_yield calls of lines 249-253, in bucket order *)
RECURSIVE SettleYield(_, _, _, _)
SettleYield(ema, trades, id, mid) ==
    IF trades = <<>> THEN ema
    ELSE LET t == Head(trades)
             ema1 == IF t.mm_id = id /\ t.inv_id # None
                     THEN update_investor_yield(ema, t.inv_id,
                                                t.spread_rev + PosRevOf(t, mid), t.abs_vol)
                     ELSE ema
         IN SettleYield(ema1, Tail(trades), id, mid)

(* the reward entry of market-maker m, lines 226-274 *)
RewardEntry(m, delayed_trades, p_delta) ==
    LET r_spread == SpreadRev(step_log.investor_trades, MMId(m), mid_price)
        c_hedge == HedgeCost(step_log.hedge_trades, MMId(m))
        r_pos == PosRev(delayed_trades, MMId(m), mid_price)
        z_start == IF history # <<>> THEN history[Len(history)].mm_positions[m] ELSE 0
        risk_val == z_start * p_delta
        c_risk == Min2(risk_val, 0)
        total == r_spread + r_pos - c_hedge + c_risk
    IN [step |-> step_count, r_spread |-> r_spread, r_pos |-> r_pos,
        c_hedge |-> 0 - c_hedge, c_risk |-> c_risk, total |-> total]

(* mutant: the queue keeps only the newest bucket *)
QueueAppendReplace(queue, bucket) == <<bucket>>

(* self.trade_queue.append(current_step_trades) *)
QueueAppend(queue, bucket) == Append(queue, bucket)

(* step(), phase 4, lines 203-277.  history[-1] raises IndexError when the *)
(* history is empty after the first step; delayed_trades is unbound (an    *)
(* UnboundLocalError at its first use, line 243) when queue_idx < 0.       *)
Settle ==
    /\ pc = "settle"
    /\ trade_queue' = QueueAppend(trade_queue, current_step_trades)
    /\ LET step_idx == step_count
           queue_idx == (step_idx - 1) - TM_DELAY
           raises == \/ (step_idx > 1 /\ history = <<>>)
                     \/ (queue_idx < 0 /\ num_mm > 0)
           p_prev == IF step_idx > 1 THEN history[Len(history)].mid_price ELSE mid_price
           p_delta == mid_price - p_prev
           delayed_trades == QueueAppend(trade_queue, current_step_trades)[queue_idx + 1]
       IN IF raises
          THEN /\ pc' = "raised"
               /\ UNCHANGED <<investor_yield_ema, rewards, history, steps_left>>
          ELSE /\ investor_yield_ema' =
                    [m \in MMs |-> SettleYield(investor_yield_ema[m], delayed_trades,
                                               MMId(m), mid_price)]
               /\ rewards' = [m \in MMs |->
                                Append(rewards[m], RewardEntry(m, delayed_trades, p_delta))]
               /\ history' = Append(history,
                                [time |-> step_log.time, mid_price |-> step_log.mid_price,
                                 investor_trades |-> step_log.investor_trades,
                                 hedge_trades |-> step_log.hedge_trades,
                                 mm_positions |-> net_position])
               /\ steps_left' = steps_left - 1
               /\ pc' = "idle"
    /\ UNCHANGED <<ret, num_mm, num_inv, step_count, mid_price, current_s0, net_position,
                   investor_tiers, inv_idx, hedge_idx, current_step_trades, step_log, req>>

Next ==
    \/ \E n \in {1, MaxSteps - step_count} : Run(n)
    \/ MarketStep
    \/ UpdateTiering
    \/ InvestorTrade
    \/ Hedge
    \/ Settle

Spec == Init /\ [][Next]_vars

(* DealerMarketSimulation(num_mm = MaxMM + 1, num_inv = 1): the smallest    *)
(* simulation in which a hedging market-maker faces two other              *)
(* market-makers                                                           *)
InitThree ==
    /\ num_mm = MaxMM + 1
    /\ num_inv = 1
    /\ step_count = 0
    /\ mid_price = MID_INIT
    /\ current_s0 \in S0Values
    /\ net_position = [m \in MMs |-> 0]
    /\ investor_tiers = [m \in MMs |-> <<>>]
    /\ investor_yield_ema = [m \in MMs |-> <<>>]
    /\ history = <<>>
    /\ trade_queue = <<>>
    /\ rewards = [m \in MMs |-> <<>>]
    /\ steps_left = 0
    /\ pc = "idle"
    /\ inv_idx = 0
    /\ hedge_idx = 0
    /\ current_step_trades = <<>>
    /\ step_log = EmptyLog
    /\ req = <<0, 0>>
    /\ ret = NoCall

SpecThree == InitThree /\ [][Next]_vars

(* ------------- one MarketMaker driven through its methods -------------- *)
(* A MarketMaker, a MarketEnvironment and the solver used directly, as the *)
(* experiments and the simulation use them: any sequence of at most        *)
(* MaxCalls calls, constructor calls included.  The market-maker is MM_0;  *)
(* no step() is in progress.                                               *)
MaxCalls == 4
UnitIds == {InvId(0), InvId(1), InvId(2)}
Revenues == {-2000, 4000}
YieldVolumes == {0, 20}
SolverZs == {0, 20}

InitMM ==
    /\ Init
    /\ num_mm = 1
    /\ num_inv = 0

(* sigma_mkt = cfg.SIGMA_MKT_LOW, in percent *)
SIGMA_MKT_LOW_PCT == 10

(* constructor arguments: the defaults and malformed ones *)
MMConfigs == {<<N_MAX, SIGMA_EST_E4>>, <<0, SIGMA_EST_E4>>, <<N_MAX, 0 - SIGMA_EST_E4>>}
SigmaMkts == {SIGMA_MKT_LOW_PCT, 0 - SIGMA_MKT_LOW_PCT}

(* the last call constructed an object with other than the default         *)
(* parameters; the calls below model objects built with the defaults       *)
NonDefaultObject ==
    \/ ret.op = "MarketMaker" /\ <<ret.n_max, ret.sigma_est>> # <<N_MAX, SIGMA_EST_E4>>
    \/ ret.op = "DealerMarketSimulation" /\ ret.sigma_mkt # SIGMA_MKT_LOW_PCT

UnitCall ==
    /\ pc = "idle"
    /\ steps_left = 0
    /\ ret.seq < MaxCalls
    /\ ~NonDefaultObject

(* MarketMaker.__init__ stores its arguments; no statement of it raises *)
MarketMakerInitRaises(n_max, sigma_est) == FALSE

(* DealerMarketSimulation.__init__ stores sigma_mkt; no statement of it raises *)
SimulationInitRaises(sigma_mkt) == FALSE

UnitFrame ==
    UNCHANGED <<num_mm, num_inv, step_count, mid_price, current_s0, history, trade_queue,
                rewards, steps_left, pc, inv_idx, hedge_idx, current_step_trades,
                step_log, req>>

(* mm.update_investor_yield(investor_id, total_revenue, volume) *)
CallUpdateInvestorYield ==
    /\ UnitCall
    /\ \E id \in UnitIds, total_revenue \in Revenues, volume \in YieldVolumes :
         /\ investor_yield_ema' = [investor_yield_ema EXCEPT
                                     ![0] = update_investor_yield(@, id, total_revenue, volume)]
         /\ ret' = [op |-> "update_investor_yield", seq |-> ret.seq + 1, id |-> id,
                    total_revenue |-> total_revenue, volume |-> volume]
    /\ UNCHANGED <<net_position, investor_tiers>>
    /\ UnitFrame

(* mm.update_tiering([]) *)
CallUpdateTiering ==
    /\ UnitCall
    /\ investor_tiers' = [investor_tiers EXCEPT
                            ![0] = update_tiering(@, investor_yield_ema[0])]
    /\ ret' = [op |-> "update_tiering", seq |-> ret.seq + 1]
    /\ UNCHANGED <<net_position, investor_yield_ema>>
    /\ UnitFrame

(* mutant: the lookup stores the default it returns (dict.setdefault) *)
TiersAfterLookupStored(tiers, id) ==
    IF id \in DOMAIN tiers THEN tiers
    ELSE [i \in (DOMAIN tiers) \cup {id} |-> IF i = id THEN NUM_TIERS - 1 ELSE tiers[i]]

(* investor_tiers after self.investor_tiers.get(investor_id, NUM_TIERS - 1) *)
TiersAfterLookup(tiers, id) == tiers

(* mm.get_quoted_price(market_env, investor_id, volume, direction), which  *)
(* calls mm.get_quote_spread(market_env, investor_id, volume)              *)
CallGetQuotedPrice ==
    /\ UnitCall
    /\ \E id \in UnitIds, volume \in Vols, direction \in {1, -1} :
         /\ investor_tiers' = [investor_tiers EXCEPT ![0] = TiersAfterLookup(@, id)]
         /\ ret' = [op |-> "get_quoted_price", seq |-> ret.seq + 1, id |-> id,
                    volume |-> volume, direction |-> direction,
                    half_spread |-> get_quote_spread(investor_tiers[0], current_s0, id, volume),
                    value |-> get_quoted_price(investor_tiers[0], net_position[0], mid_price,
                                               current_s0, id, volume, direction)]
    /\ UNCHANGED <<net_position, investor_yield_ema>>
    /\ UnitFrame

(* mm.calculate_hedge_quantity(market_env, competitor_cost) *)
CallCalculateHedgeQuantity ==
    /\ UnitCall
    /\ \E x0 \in HedgeX0(net_position[0]) :
         ret' = [op |-> "calculate_hedge_quantity", seq |-> ret.seq + 1,
                 solver |-> CallsSolver(net_position[0]), x0 |-> x0,
                 value |-> calculate_hedge_quantity(net_position[0], x0)]
    /\ UNCHANGED <<net_position, investor_tiers, investor_yield_ema>>
    /\ UnitFrame

(* solve_almgren_chriss(z, n_max, gamma, sigma_est, cost) *)
CallSolver ==
    /\ UnitCall
    /\ \E z \in SolverZs : \E res \in minimize :
         ret' = [op |-> "solve_almgren_chriss", seq |-> ret.seq + 1, z |-> z,
                 optimizer |-> InvokesOptimizer(z),
                 success |-> InvokesOptimizer(z) /\ res.success,
                 x0 |-> IF InvokesOptimizer(z) THEN res.x0 ELSE <<0, 1>>,
                 value |-> SolverReturn(z, res)]
    /\ UNCHANGED <<net_position, investor_tiers, investor_yield_ema>>
    /\ UnitFrame

(* mm.net_position += mm_signed_vol, the write of simulation.py line 103 *)
PositionWrite ==
    /\ UnitCall
    /\ \E vol \in Vols, direction \in {1, -1} :
         net_position' = [net_position EXCEPT ![0] = @ + MMSignedVol(direction, vol)]
    /\ ret' = [op |-> "net_position", seq |-> ret.seq + 1]
    /\ UNCHANGED <<investor_tiers, investor_yield_ema>>
    /\ UnitFrame

(* MarketMaker("MM_0", n_max = ..., sigma_est = ...): a fresh market-maker *)
CallMarketMakerInit ==
    /\ UnitCall
    /\ \E cfg \in MMConfigs :
         ret' = [op |-> "MarketMaker", seq |-> ret.seq + 1, n_max |-> cfg[1],
                 sigma_est |-> cfg[2], raised |-> MarketMakerInitRaises(cfg[1], cfg[2])]
    /\ net_position' = [m \in MMs |-> 0]
    /\ investor_tiers' = [m \in MMs |-> <<>>]
    /\ investor_yield_ema' = [m \in MMs |-> <<>>]
    /\ UnitFrame

(* DealerMarketSimulation(num_mm = 1, num_inv = 0, sigma_mkt = ...): a     *)
(* fresh market environment and market-maker, empty history and queue      *)
CallSimulationInit ==
    /\ UnitCall
    /\ \E sigma_mkt \in SigmaMkts :
         ret' = [op |-> "DealerMarketSimulation", seq |-> ret.seq + 1,
                 sigma_mkt |-> sigma_mkt, raised |-> SimulationInitRaises(sigma_mkt)]
    /\ step_count' = 0
    /\ mid_price' = MID_INIT
    /\ current_s0' \in S0Values
    /\ net_position' = [m \in MMs |-> 0]
    /\ investor_tiers' = [m \in MMs |-> <<>>]
    /\ investor_yield_ema' = [m \in MMs |-> <<>>]
    /\ UNCHANGED <<num_mm, num_inv, history, trade_queue, rewards, steps_left, pc, inv_idx,
                   hedge_idx, current_step_trades, step_log, req>>

NextMM ==
    \/ CallMarketMakerInit
    \/ CallSimulationInit
    \/ CallUpdateInvestorYield
    \/ CallUpdateTiering
    \/ CallGetQuotedPrice
    \/ CallCalculateHedgeQuantity
    \/ CallSolver
    \/ PositionWrite

SpecMM == InitMM /\ [][NextMM]_vars

(* ======================= properties of the model ======================= *)
Last(s) == s[Len(s)]
IdxOf(id) == CHOOSE m \in MMs : MMId(m) = id

RECURSIVE SumUpTo(_, _)
SumUpTo(f, n) == IF n < 0 THEN 0 ELSE f[n] + SumUpTo(f, n - 1)
SumPositions(pos) == SumUpTo(pos, num_mm - 1)

(* a call of step() is not in progress: it returned, or it ended in an exception *)
AtRest == pc \in {"idle", "raised"}
(* the current run() call is over: it returned or an exception left it *)
RunOver == pc = "raised" \/ (pc = "idle" /\ steps_left = 0)
(* the number of the last step the current run() call is to execute *)
RunTarget == IF pc = "idle" THEN step_count + steps_left ELSE step_count + steps_left - 1

(* this transition executes an investor trade / a hedge *)
TradeExecuted ==
    pc = "investors" /\ Len(step_log'.investor_trades) = Len(step_log.investor_trades) + 1
HedgeExecuted ==
    pc = "hedging" /\ Len(step_log'.hedge_trades) = Len(step_log.hedge_trades) + 1

(* C1: once a run() that was to reach step t + TM_DELAY is over, every     *)
(* record of bucket t is counted in r_pos of its market-maker's reward     *)
(* entry of step t + TM_DELAY, as vol * (mid of that step - price_at_     *)
(* trade); and r_pos of every reward entry s is the sum over bucket        *)
(* s - TM_DELAY alone (no record counts earlier, later or twice).          *)
C1_DelayedAccounting ==
    /\ \A t \in 1..Len(trade_queue) : \A k \in 1..Len(trade_queue[t]) :
          LET rec == trade_queue[t][k]
              m == IdxOf(rec.mm_id)
              s == t + TM_DELAY
          IN (RunOver /\ RunTarget >= s) =>
                /\ Len(rewards[m]) >= s
                /\ Len(history) >= s
                /\ rewards[m][s].r_pos =
                      PosRev(trade_queue[t], rec.mm_id, history[s].mid_price)
    /\ \A m \in MMs : \A s \in 1..Len(rewards[m]) :
          rewards[m][s].r_pos =
             IF s > TM_DELAY
             THEN PosRev(trade_queue[s - TM_DELAY], MMId(m), history[s].mid_price)
             ELSE 0

(* C2: with at least one market-maker, no step t <= TM_DELAY raises; when  *)
(* it has returned every market-maker has one reward entry per step, the   *)
(* last with r_pos = 0, and no yield EMA has been touched.                 *)
C2_EarlyStepsComplete ==
    (num_mm >= 1 /\ step_count >= 1 /\ step_count <= TM_DELAY) =>
        /\ pc # "raised"
        /\ pc = "idle" =>
              \A m \in MMs : /\ Len(rewards[m]) = step_count
                             /\ rewards[m][step_count].r_pos = 0
                             /\ investor_yield_ema[m] = <<>>

(* C3: an executed hedge moves the taker's position by direction_h *       *)
(* hedge_vol and the chosen maker's by the opposite amount, no other       *)
(* position changes, the sum of positions is unchanged by every transition *)
(* of the hedging phase, and the two appended records' vols sum to 0.      *)
C3_HedgeConserves ==
    [][ /\ pc = "hedging" => SumPositions(net_position') = SumPositions(net_position)
        /\ HedgeExecuted =>
             LET h == Last(step_log'.hedge_trades)
                 taker == hedge_idx
                 maker == IdxOf(h.maker)
                 n == Len(current_step_trades')
             IN /\ h.taker = MMId(taker)
                /\ maker # taker
                /\ h.vol # 0
                /\ Sign(h.vol) = 0 - Sign(net_position[taker])
                /\ net_position'[taker] = net_position[taker] + h.vol
                /\ net_position'[maker] = net_position[maker] - h.vol
                /\ \A o \in MMs \ {taker, maker} : net_position'[o] = net_position[o]
                /\ n = Len(current_step_trades) + 2
                /\ current_step_trades'[n - 1].mm_id = h.taker
                /\ current_step_trades'[n - 1].vol = h.vol
                /\ current_step_trades'[n].mm_id = h.maker
                /\ current_step_trades'[n - 1].vol + current_step_trades'[n].vol = 0
      ]_vars

(* a hedge has been executed in the current step *)
C3_Witness == pc \in {"hedging", "settle"} /\ Len(step_log.hedge_trades) >= 1

IsInvRec(rec) == rec.inv_id # None
IsHedgeRec(rec) == rec.inv_id = None

(* the bucket holds one record per logged investor trade and two per       *)
(* logged hedge (taker, then maker), and nothing else                      *)
BucketMatchesLog(bucket, log) ==
    LET inv == SelectSeq(bucket, IsInvRec)
        hdg == SelectSeq(bucket, IsHedgeRec)
    IN /\ Len(inv) = Len(log.investor_trades)
       /\ \A j \in 1..Len(inv) : /\ inv[j].mm_id = log.investor_trades[j].mm
                                 /\ inv[j].inv_id = log.investor_trades[j].inv
                                 /\ inv[j].vol = log.investor_trades[j].vol
       /\ Len(hdg) = 2 * Len(log.hedge_trades)
       /\ \A j \in 1..Len(log.hedge_trades) :
             /\ hdg[2 * j - 1].mm_id = log.hedge_trades[j].taker
             /\ hdg[2 * j - 1].vol = log.hedge_trades[j].vol
             /\ hdg[2 * j].mm_id = log.hedge_trades[j].maker
             /\ hdg[2 * j].vol = 0 - log.hedge_trades[j].vol

C4_QueueState ==
    /\ (pc = "idle" \/ (pc = "raised" /\ num_mm >= 1)) =>
          /\ Len(trade_queue) = step_count
          /\ step_count >= 1 => /\ Last(trade_queue) = current_step_trades
                                /\ BucketMatchesLog(Last(trade_queue), step_log)
    /\ \A t \in 1..Len(trade_queue) : \A k \in 1..Len(trade_queue[t]) :
          trade_queue[t][k].step = t

C4_AppendOnly ==
    /\ Len(trade_queue') >= Len(trade_queue)
    /\ SubSeq(trade_queue', 1, Len(trade_queue)) = trade_queue

(* C4: between calls of step() the queue has one bucket per step, bucket t *)
(* holds exactly the records created during step t (each with step = t),   *)
(* and no transition removes or changes a bucket already in the queue.     *)
C4_TradeQueue == [](C4_QueueState) /\ [][C4_AppendOnly]_vars

(* a step is over whose bucket holds an investor record and hedge records *)
C4_Witness ==
    /\ AtRest
    /\ Len(trade_queue) = step_count
    /\ step_count >= 1
    /\ \E k \in 1..Len(Last(trade_queue)) : IsInvRec(Last(trade_queue)[k])
    /\ \E k \in 1..Len(Last(trade_queue)) : IsHedgeRec(Last(trade_queue)[k])

(* C5: whenever a call of step() is over, every market-maker has one       *)
(* reward entry per step executed, entry k carrying step = k, the history  *)
(* has one log per step, and the last log's mm_positions are the current   *)
(* positions.                                                              *)
C5_OneEntryPerStep ==
    (num_mm >= 1 /\ AtRest) =>
        /\ \A m \in MMs : /\ Len(rewards[m]) = step_count
                          /\ \A k \in 1..Len(rewards[m]) : rewards[m][k].step = k
        /\ Len(history) = step_count
        /\ step_count >= 1 => Last(history).mm_positions = net_position

(* C6: whenever a call of step() is over, the reward entry of that step    *)
(* exists for every market-maker, and every reward entry has               *)
(* total = r_spread + r_pos + c_hedge + c_risk with c_hedge <= 0.          *)
C6_RewardTotal ==
    (num_mm >= 1 /\ AtRest) =>
        \A m \in MMs :
            /\ Len(rewards[m]) = step_count
            /\ \A k \in 1..Len(rewards[m]) :
                  LET e == rewards[m][k]
                  IN /\ e.total = e.r_spread + e.r_pos + e.c_hedge + e.c_risk
                     /\ e.c_hedge <= 0

(* C7: whenever a call of step() is over, the reward entry of that step    *)
(* exists for every market-maker, and every reward entry k has             *)
(* c_risk = min(z_start * (mid of step k - mid of step k - 1), 0) <= 0,    *)
(* z_start being the position at the end of step k - 1 (0 for k = 1).      *)
C7_RiskCost ==
    (num_mm >= 1 /\ AtRest) =>
        \A m \in MMs :
            /\ Len(rewards[m]) = step_count
            /\ \A k \in 1..Len(rewards[m]) :
                  LET z_start == IF k = 1 THEN 0 ELSE history[k - 1].mm_positions[m]
                      p_delta == IF k = 1 THEN 0
                                 ELSE history[k].mid_price - history[k - 1].mid_price
                  IN /\ rewards[m][k].c_risk = Min2(z_start * p_delta, 0)
                     /\ rewards[m][k].c_risk <= 0

(* C8: the market-maker that executes an investor trade quoted, in the     *)
(* state before the trade, the minimum of all quotes when the investor     *)
(* buys and the maximum when it sells, and the trade is logged at that     *)
(* price.                                                                  *)
C8_BestPriceWins ==
    [][ TradeExecuted =>
          LET t == Last(step_log'.investor_trades)
              v == req'[1]
              d == req'[2]
              w == IdxOf(t.mm)
          IN /\ t.inv = InvId(inv_idx)
             /\ d = 1 => \A m \in MMs : Quote(w, inv_idx, v, d) <= Quote(m, inv_idx, v, d)
             /\ d = -1 => \A m \in MMs : Quote(w, inv_idx, v, d) >= Quote(m, inv_idx, v, d)
             /\ t.price = Quote(w, inv_idx, v, d)
      ]_vars

(* two investors bought in this step and different market-makers won: the  *)
(* second trade was decided by price, not by a tie                         *)
C8_Witness ==
    /\ pc \in {"investors", "hedging"}
    /\ hedge_idx = 0
    /\ Len(step_log.investor_trades) = 2
    /\ step_log.investor_trades[1].vol < 0
    /\ step_log.investor_trades[2].vol < 0
    /\ step_log.investor_trades[1].mm # step_log.investor_trades[2].mm

(* the market-makers whose quote is the best one for the request r *)
TiedAtBest(i, r) ==
    LET q == Quotes(i, r[1], r[2])
    IN {m \in MMs : \A k \in MMs : IF r[2] = 1 THEN q[m] <= q[k] ELSE q[m] >= q[k]}

(* C9: whenever an investor is about to be served and two or more          *)
(* market-makers quote the same best price for a request, then for each    *)
(* of the tied market-makers the step in which it executes that trade is   *)
(* possible.                                                               *)
C9_TieBreakRandom ==
    (pc = "investors" /\ inv_idx < num_inv /\ num_mm >= 2) =>
        \A r \in Vols \X {1, -1} :
            LET tied == TiedAtBest(inv_idx, r)
            IN Cardinality(tied) >= 2 =>
                 \A m \in tied :
                    ENABLED (/\ req' = r
                             /\ InvestorTrade
                             /\ Last(step_log'.investor_trades).mm = MMId(m))

(* the first trade of the run went to MM_1 although MM_0, with the same    *)
(* position 0 and no tiers, quoted the same price                          *)
C9_Witness ==
    /\ num_mm >= 2
    /\ pc \in {"investors", "hedging"}
    /\ hedge_idx = 0
    /\ Len(step_log.investor_trades) = 1
    /\ step_log.investor_trades[1].mm = MMId(1)
    /\ net_position[0] = 0

(* C10: an investor trade of volume v and direction d moves the winner's   *)
(* position by -d * v, leaves every other position and every tier and      *)
(* yield mapping unchanged, and appends one record with vol = -d * v,      *)
(* abs_vol = v and the investor's id.                                      *)
C10_InvestorTradeFrame ==
    [][ TradeExecuted =>
          LET v == req'[1]
              d == req'[2]
              w == IdxOf(Last(step_log'.investor_trades).mm)
              rec == Last(current_step_trades')
          IN /\ v > 0
             /\ d \in {1, -1}
             /\ net_position'[w] = net_position[w] - d * v
             /\ \A m \in MMs \ {w} : net_position'[m] = net_position[m]
             /\ investor_tiers' = investor_tiers
             /\ investor_yield_ema' = investor_yield_ema
             /\ Len(current_step_trades') = Len(current_step_trades) + 1
             /\ rec.mm_id = MMId(w)
             /\ rec.vol = 0 - d * v
             /\ rec.abs_vol = v
             /\ rec.inv_id = InvId(inv_idx)
      ]_vars

(* an investor sold to one of two market-makers, the other still flat *)
C10_Witness ==
    /\ num_mm = 2
    /\ pc \in {"investors", "hedging"}
    /\ hedge_idx = 0
    /\ req[2] = -1
    /\ Len(current_step_trades) = 1
    /\ \E w \in MMs : net_position[w] = req[1] /\ \A m \in MMs \ {w} : net_position[m] = 0

(* C11: after any sequence of update_tiering and update_investor_yield     *)
(* calls, every value in the market-maker's investor_tiers is an integer   *)
(* of 0 .. NUM_TIERS - 1.                                                  *)
C11_TiersInRange ==
    \A m \in MMs : \A id \in DOMAIN investor_tiers[m] :
        investor_tiers[m][id] \in 0..(NUM_TIERS - 1)

(* update_tiering has just ranked three investors, the last in a tier > 1 *)
C11_Witness ==
    /\ ret.op = "update_tiering"
    /\ Cardinality(DOMAIN investor_tiers[0]) = 3
    /\ \E id \in DOMAIN investor_tiers[0] : investor_tiers[0][id] > 1

(* the 0-based rank of entry k of an insertion-ordered yield mapping when  *)
(* ranked by descending yield, entries of equal yield in insertion order   *)
RankByYield(ema, k) ==
    Cardinality({j \in 1..Len(ema) :
                    ema[j].ema > ema[k].ema \/ (ema[j].ema = ema[k].ema /\ j < k)})

(* C12: a call of update_tiering gives the investor at 0-based rank r      *)
(* among the N investors with a yield EMA, ranked by descending yield, the *)
(* tier min(floor(r * K / N), K - 1); the investor with the strictly       *)
(* highest yield gets tier 0, and an investor with a strictly higher yield *)
(* never gets a larger tier than one with a lower yield.                   *)
C12_TierByRank ==
    [][ ret'.op = "update_tiering" =>
          LET ema == investor_yield_ema[0]
              n == Len(ema)
              new == investor_tiers'[0]
          IN /\ \A k \in 1..n :
                   /\ ema[k].id \in DOMAIN new
                   /\ new[ema[k].id] =
                         Min2((RankByYield(ema, k) * NUM_TIERS) \div n, NUM_TIERS - 1)
                   /\ (\A j \in 1..n : j # k => ema[j].ema < ema[k].ema) => new[ema[k].id] = 0
             /\ \A j, k \in 1..n : ema[j].ema > ema[k].ema => new[ema[j].id] <= new[ema[k].id]
      ]_vars

(* three investors were ranked, two of them with the same yield and the    *)
(* third with a different one                                              *)
C12_Witness ==
    /\ ret.op = "update_tiering"
    /\ Len(investor_yield_ema[0]) = 3
    /\ \E j, k \in 1..3 : j # k /\ investor_yield_ema[0][j].ema = investor_yield_ema[0][k].ema
    /\ \E j, k \in 1..3 : investor_yield_ema[0][j].ema > investor_yield_ema[0][k].ema

C13_NoEntryWorstTier ==
    \A i \in UnitIds :
        ~HasYield(investor_yield_ema[0], i) =>
            /\ i \notin DOMAIN investor_tiers[0]
            /\ pc # "raised"
            /\ (ret.op = "get_quoted_price" /\ ret.id = i) =>
                  /\ ret.half_spread =
                        get_quote_spread([x \in {i} |-> NUM_TIERS - 1], current_s0, i, ret.volume)
                  /\ ret.value = mid_price + Skew(net_position[0])
                                    + ret.direction * ret.half_spread

C13_EntryOnlyBySettlement ==
    \A i \in UnitIds :
        (HasYield(investor_yield_ema'[0], i) /\ ~HasYield(investor_yield_ema[0], i)) =>
            (ret'.op = "update_investor_yield" /\ ret'.id = i)

C14_YieldAtSettlement ==
    /\ \A t \in 1..Len(trade_queue) : \A k \in 1..Len(trade_queue[t]) :
          LET rec == trade_queue[t][k]
          IN (rec.inv_id # None /\ RunOver /\ RunTarget >= t + TM_DELAY) =>
                HasYield(investor_yield_ema[IdxOf(rec.mm_id)], rec.inv_id)
    /\ \A m \in MMs : \A e \in 1..Len(investor_yield_ema[m]) :
          \E t \in 1..(Len(history) - TM_DELAY) : \E k \in 1..Len(trade_queue[t]) :
              /\ trade_queue[t][k].mm_id = MMId(m)
              /\ trade_queue[t][k].inv_id = investor_yield_ema[m][e].id

(* the yield recorded for id *)
YieldOf(ema, id) == ema[YieldIdx(ema, id)].ema

(* C15: a call of update_investor_yield with a volume that is not ~0 sets  *)
(* the investor's yield to revenue / |volume| when the investor had no     *)
(* entry (never blended with a prior of 0), and to 0.9 * previous + 0.1 *  *)
(* revenue / |volume| otherwise (equalities up to the resolution of the    *)
(* fixed-point yields); the other investors' yields are not changed.       *)
C15_YieldUpdate ==
    [][ (ret'.op = "update_investor_yield" /\ ret'.volume # 0) =>
          LET old == investor_yield_ema[0]
              new == investor_yield_ema'[0]
              id == ret'.id
              y == YieldOf(new, id)
          IN /\ HasYield(new, id)
             /\ IF ~HasYield(old, id)
                THEN /\ Abs(ret'.total_revenue - y * Abs(ret'.volume)) < Abs(ret'.volume)
                     /\ Len(new) = Len(old) + 1
                ELSE /\ Abs(10 * y * Abs(ret'.volume)
                                - 9 * YieldOf(old, id) * Abs(ret'.volume)
                                - ret'.total_revenue) < 10 * Abs(ret'.volume)
                     /\ Len(new) = Len(old)
             /\ \A i \in UnitIds \ {id} :
                   /\ HasYield(new, i) <=> HasYield(old, i)
                   /\ HasYield(old, i) => YieldOf(new, i) = YieldOf(old, i)
      ]_vars

(* the last call blended a new observation into an investor's yield while  *)
(* another investor holds its first observation                            *)
C15_Witness ==
    /\ ret.op = "update_investor_yield"
    /\ ret.volume # 0
    /\ Len(investor_yield_ema[0]) >= 2
    /\ HasYield(investor_yield_ema[0], ret.id)
    /\ YieldOf(investor_yield_ema[0], ret.id) * Abs(ret.volume) # ret.total_revenue

(* C16: a call of update_investor_yield with |volume| ~ 0 returns without  *)
(* raising and leaves investor_yield_ema and the rest of the               *)
(* market-maker's state unchanged; no entry is created for the investor.   *)
C16_ZeroVolumeSkipped ==
    [][ (ret'.op = "update_investor_yield" /\ ret'.volume = 0) =>
          /\ pc' # "raised"
          /\ investor_yield_ema' = investor_yield_ema
          /\ investor_tiers' = investor_tiers
          /\ net_position' = net_position
          /\ HasYield(investor_yield_ema'[0], ret'.id) <=> HasYield(investor_yield_ema[0], ret'.id)
      ]_vars

(* the last call had volume 0 for an investor that still has no yield,     *)
(* while another investor has one                                          *)
C16_Witness ==
    /\ ret.op = "update_investor_yield"
    /\ ret.volume = 0
    /\ ~HasYield(investor_yield_ema[0], ret.id)
    /\ Len(investor_yield_ema[0]) >= 1

(* C17: a call of get_quoted_price (and of get_quote_spread inside it)     *)
(* leaves the market-maker's net_position, investor_tiers and              *)
(* investor_yield_ema and the market environment's mid_price, step_count   *)
(* and current_s0 unchanged.                                               *)
C17_QuoteIsPure ==
    [][ ret'.op = "get_quoted_price" =>
          /\ net_position' = net_position
          /\ investor_tiers' = investor_tiers
          /\ investor_yield_ema' = investor_yield_ema
          /\ mid_price' = mid_price
          /\ step_count' = step_count
          /\ current_s0' = current_s0
      ]_vars

(* a market-maker holding a position and a yield quoted an investor it has *)
(* no tier for                                                             *)
C17_Witness ==
    /\ ret.op = "get_quoted_price"
    /\ ret.id \notin DOMAIN investor_tiers[0]
    /\ net_position[0] # 0
    /\ Len(investor_yield_ema[0]) >= 1

(* C18: for the current market snapshot, every volume and the              *)
(* market-maker, the spread of get_quote_spread for an investor in tier u1 *)
(* is <= the spread for an investor in tier u2 whenever u1 < u2, the       *)
(* difference being MM_DELTA_TIER * (u2 - u1) with MM_DELTA_TIER >= 0;     *)
(* checked for every pair of tiers and for every pair of investors as the  *)
(* market-maker currently tiers them.                                      *)
C18_TierMonotone ==
    /\ MM_DELTA_TIER >= 0
    /\ \A v \in Vols :
          \E spread \in {[u \in 0..(NUM_TIERS - 1) |->
                           get_quote_spread([x \in {InvId(0)} |-> u], current_s0, InvId(0), v)]} :
             \A u1, u2 \in 0..(NUM_TIERS - 1) :
                u1 < u2 => /\ spread[u1] <= spread[u2]
                           /\ spread[u2] - spread[u1] = MM_DELTA_TIER * (u2 - u1)
    /\ \A m \in MMs : \A v \in Vols : \A i, j \in UnitIds :
          LET t == investor_tiers[m]
              ti == IF i \in DOMAIN t THEN t[i] ELSE NUM_TIERS - 1
              tj == IF j \in DOMAIN t THEN t[j] ELSE NUM_TIERS - 1
              a == get_quote_spread(t, current_s0, i, v)
              b == get_quote_spread(t, current_s0, j, v)
          IN ti < tj => (a <= b /\ b - a = MM_DELTA_TIER * (tj - ti))

(* the market-maker holds two investors in different tiers and has just    *)
(* quoted the better one                                                   *)
C18_Witness ==
    /\ ret.op = "get_quoted_price"
    /\ ret.id \in DOMAIN investor_tiers[0]
    /\ \E j \in DOMAIN investor_tiers[0] : investor_tiers[0][ret.id] < investor_tiers[0][j]

(* C19: calculate_hedge_quantity on a position that is not ~0 returns the  *)
(* direction -sign(net_position) (sell when long, buy when short) and the  *)
(* size x0 * |net_position| for the x0 the solver returned (in whole       *)
(* volume units, the resolution of the fixed-point volumes).               *)
C19_HedgeQuantity ==
    (ret.op = "calculate_hedge_quantity" /\ net_position[0] # 0) =>
        LET pos == net_position[0]
            size == ret.value[1]
            direction == ret.value[2]
            x0 == ret.x0
        IN /\ ret.solver
           /\ x0 \in solve_almgren_chriss(Abs(pos))
           /\ pos > 0 => direction = -1
           /\ pos < 0 => direction = 1
           /\ size * x0[2] <= x0[1] * Abs(pos)
           /\ x0[1] * Abs(pos) < (size + 1) * x0[2]

(* a short market-maker was told to buy a positive quantity smaller than   *)
(* its whole position                                                      *)
C19_Witness ==
    /\ ret.op = "calculate_hedge_quantity"
    /\ net_position[0] < 0
    /\ ret.value[2] = 1
    /\ ret.value[1] >= 1
    /\ ret.value[1] < 0 - net_position[0]

(* C20: for a market-maker whose net_position is ~0,                       *)
(* calculate_hedge_quantity returns size 0 and direction 0 without calling *)
(* the solver, solve_almgren_chriss with z ~ 0 returns 0 without invoking  *)
(* the optimizer, and the market-maker's iteration of the hedging phase    *)
(* executes no hedge: no position changes, no record and no log entry.     *)
C20_FlatNoHedge ==
    [][ (pc = "hedging" /\ hedge_idx < num_mm /\ net_position[hedge_idx] = 0) =>
          /\ ~CallsSolver(net_position[hedge_idx])
          /\ \A x0 \in HedgeX0(net_position[hedge_idx]) :
                calculate_hedge_quantity(net_position[hedge_idx], x0) = <<0, 0>>
          /\ ~InvokesOptimizer(Abs(net_position[hedge_idx]))
          /\ \A x0 \in solve_almgren_chriss(Abs(net_position[hedge_idx])) : x0[1] = 0
          /\ net_position' = net_position
          /\ current_step_trades' = current_step_trades
          /\ step_log' = step_log
          /\ hedge_idx' = hedge_idx + 1
      ]_vars

(* the hedging phase has passed the flat MM_0 while another market-maker   *)
(* holds a position taken in this step                                     *)
C20_Witness ==
    /\ pc \in {"hedging", "settle"}
    /\ num_mm >= 2
    /\ hedge_idx = 1
    /\ net_position[0] = 0
    /\ step_log.hedge_trades = <<>>
    /\ Len(step_log.investor_trades) >= 1
    /\ net_position[1] # 0

(* C21: for z >= 1e-9 solve_almgren_chriss returns the optimizer's x[0]    *)
(* when the optimizer reports success and exactly 1 / n_steps otherwise;   *)
(* the call does not raise and its result is a fraction of [0, 1].         *)
C21_SolverFallback ==
    (ret.op = "solve_almgren_chriss" /\ ret.z > 0) =>
        /\ ret.optimizer
        /\ pc # "raised"
        /\ ret.success => ret.value = ret.x0
        /\ ~ret.success => (ret.value[1] = 1 /\ ret.value[2] = N_MAX)
        /\ ret.value[2] > 0
        /\ 0 <= ret.value[1]
        /\ ret.value[1] <= ret.value[2]

(* the optimizer failed at an iterate other than the uniform schedule *)
C21_Witness ==
    /\ ret.op = "solve_almgren_chriss"
    /\ ret.z > 0
    /\ ~ret.success
    /\ ret.x0 # ret.value

(* the hedge volumes calculate_hedge_quantity can compute for MM m now *)
HedgeVols(m) ==
    {calculate_hedge_quantity(net_position[m], x0)[1] : x0 \in HedgeX0(net_position[m])}

(* C22: in a market-maker's iteration of the hedging phase a hedge         *)
(* executes exactly when the computed hedge volume exceeds the threshold   *)
(* and another market-maker exists.  An executed hedge moves the taker's   *)
(* and the maker's positions by opposite amounts, appends exactly two      *)
(* records (taker with spread_rev 0, maker with spread_rev = spread *      *)
(* hedge_vol) and one hedge_trades entry; otherwise no position, record or *)
(* log entry changes.                                                      *)
C22_HedgeExecution ==
    [][ (pc = "hedging" /\ hedge_idx < num_mm) =>
          LET mm == hedge_idx
          IN IF Len(step_log'.hedge_trades) # Len(step_log.hedge_trades)
             THEN LET h == Last(step_log'.hedge_trades)
                      vol == Abs(h.vol)
                      mk == IdxOf(h.maker)
                      n == Len(current_step_trades)
                      spread == get_quote_spread(investor_tiers[mk], current_s0, MMId(mm), vol)
                  IN /\ Len(step_log'.hedge_trades) = Len(step_log.hedge_trades) + 1
                     /\ vol >= 1
                     /\ vol \in HedgeVols(mm)
                     /\ num_mm >= 2
                     /\ h.taker = MMId(mm)
                     /\ mk # mm
                     /\ h.spread_paid = spread * vol
                     /\ net_position'[mm] = net_position[mm] + h.vol
                     /\ net_position'[mk] = net_position[mk] - h.vol
                     /\ \A o \in MMs \ {mm, mk} : net_position'[o] = net_position[o]
                     /\ Len(current_step_trades') = n + 2
                     /\ SubSeq(current_step_trades', 1, n) = current_step_trades
                     /\ current_step_trades'[n + 1].mm_id = MMId(mm)
                     /\ current_step_trades'[n + 1].inv_id = None
                     /\ current_step_trades'[n + 1].vol = h.vol
                     /\ current_step_trades'[n + 1].spread_rev = 0
                     /\ current_step_trades'[n + 2].mm_id = h.maker
                     /\ current_step_trades'[n + 2].inv_id = None
                     /\ current_step_trades'[n + 2].vol = 0 - h.vol
                     /\ current_step_trades'[n + 2].spread_rev = spread * vol
             ELSE /\ net_position' = net_position
                  /\ current_step_trades' = current_step_trades
                  /\ step_log' = step_log
                  /\ num_mm < 2 \/ \E v \in HedgeVols(mm) : v < 1
      ]_vars

(* the hedging phase is over: one market-maker hedged, another did not *)
C22_Witness ==
    /\ pc = "settle"
    /\ num_mm >= 2
    /\ Len(step_log.hedge_trades) = 1
    /\ Len(current_step_trades) >= 3
    /\ Last(current_step_trades).spread_rev > 0
    /\ Last(current_step_trades).inv_id = None

(* C23: constructing a MarketMaker with n_max <= 0 or a negative           *)
(* sigma_est, or a DealerMarketSimulation with a negative volatility,      *)
(* raises at construction time.                                            *)
C23_ConfigValidated ==
    /\ (ret.op = "MarketMaker" /\ (ret.n_max <= 0 \/ ret.sigma_est < 0)) => ret.raised
    /\ (ret.op = "DealerMarketSimulation" /\ ret.sigma_mkt < 0) => ret.raised

(* C24: with one market-maker at position 0 and one investor that buys     *)
(* volume v in step 1, once the call of step() is over the market-maker's  *)
(* net_position is -v and the step's reward entry has r_spread =           *)
(* get_quote_spread(v, tier) * v; and once a run() that was to reach step  *)
(* 1 + TM_DELAY is over, the reward entry of that step exists and, the mid *)
(* price being the one at the trade, carries a position revenue of 0.      *)
C24_SingleBuyScenario ==
    (/\ num_mm = 1 /\ num_inv = 1 /\ step_count = 1 /\ AtRest
     /\ Len(step_log.investor_trades) = 1
     /\ req[2] = 1) =>
        LET v == req[1]
            s == 1 + TM_DELAY
        IN /\ net_position[0] = 0 - v
           /\ Len(rewards[0]) >= 1
           /\ rewards[0][1].r_spread = get_quote_spread(<<>>, current_s0, InvId(0), v) * v
           /\ (RunOver /\ RunTarget >= s) =>
                 /\ Len(rewards[0]) >= s
                 /\ history[s].mid_price = trade_queue[1][1].price_at_trade
                       => rewards[0][s].r_pos = 0

(* C26: with at least one market-maker, whenever a call run(steps = n) is  *)
(* over it has returned after exactly n calls of step(): no exception left *)
(* it, the market's step_count has advanced by n and one step log per step *)
(* is in the history, so that a further run(m) continues from there.       *)
C26_RunPerformsAllSteps ==
    (num_mm >= 1 /\ RunOver) =>
        /\ pc = "idle"
        /\ step_count = RunTarget
        /\ Len(history) = step_count


(* C28: for the current market snapshot, every investor as the             *)
(* market-maker tiers it and alpha = 1.5 > 0, get_quote_spread is          *)
(* non-decreasing in volume: v1 < v2 implies spread(v1) <= spread(v2),     *)
(* from volume 0 over the volumes just above the cut-off 1e-9 and whole    *)
(* volumes up to and beyond 0.999 * V_MAX, where the curve is capped.      *)
C28_WholeVolumes == {0, 1, 20, 40, 5000, 9989, 9990, V_MAX, V_MAX + 2000}
C28_WholeMonotone(t, id) ==
    \A v1, v2 \in C28_WholeVolumes :
       v1 < v2 => get_quote_spread(t, current_s0, id, v1)
                     <= get_quote_spread(t, current_s0, id, v2)
C28_TinyMonotone(t, id) ==
    /\ \A w \in TinyVols :
          /\ get_quote_spread(t, current_s0, id, 0)
                <= get_quote_spread_float(t, current_s0, id, w)
          /\ get_quote_spread_float(t, current_s0, id, w)
                <= get_quote_spread(t, current_s0, id, 1)
    /\ \A w1, w2 \in TinyVols :
          w1 < w2 => get_quote_spread_float(t, current_s0, id, w1)
                        <= get_quote_spread_float(t, current_s0, id, w2)
C28_SpreadMonotoneInVolume ==
    \A id \in UnitIds :
       /\ C28_WholeMonotone(investor_tiers[0], id)
       /\ C28_TinyMonotone(investor_tiers[0], id)


(* the other market-makers whose spread for a hedge of market-maker m is   *)
(* the lowest                                                              *)
TiedHedgeMakers(m, hedge_vol) ==
    {o \in MMs \ {m} : \A k \in MMs \ {m} :
        HedgeSpread(o, m, hedge_vol) <= HedgeSpread(k, m, hedge_vol)}

(* C29: whenever a market-maker is about to hedge a volume above the       *)
(* threshold and two or more other market-makers quote the same lowest     *)
(* spread for it, then for each of the tied market-makers the step in      *)
(* which it becomes the maker of that hedge is possible.                   *)
C29_HedgeTieBreakRandom ==
    (pc = "hedging" /\ hedge_idx < num_mm /\ num_mm >= 3) =>
        \A hedge_vol \in HedgeVols(hedge_idx) :
            LET tied == TiedHedgeMakers(hedge_idx, hedge_vol)
            IN (hedge_vol >= 1 /\ Cardinality(tied) >= 2) =>
                 \A o \in tied :
                    ENABLED (/\ Hedge
                             /\ Len(step_log'.hedge_trades) = Len(step_log.hedge_trades) + 1
                             /\ Abs(Last(step_log'.hedge_trades).vol) = hedge_vol
                             /\ Last(step_log'.hedge_trades).maker = MMId(o))


C31_PhaseOrder ==
    [][ num_mm >= 1 =>
          /\ (pc = "idle" /\ pc' # "idle") => pc' = "tiering"
          /\ (pc = "tiering" /\ pc' # pc) => pc' \in {"investors", "hedging"}
          /\ (pc = "investors" /\ pc' # pc) => pc' = "hedging"
          /\ (pc = "hedging" /\ pc' # pc) => pc' = "settle"
          /\ pc = "settle" => /\ pc' = "idle"
                              /\ step_count' = step_count
                              /\ Len(history') = step_count
          /\ investor_yield_ema' # investor_yield_ema => (pc = "settle" /\ pc' = "idle")
          /\ investor_tiers' # investor_tiers => pc = "tiering"
      ]_vars


(* the position of market-maker m when the current step began *)
StepStartPos(m) == IF history = <<>> THEN 0 ELSE Last(history).mm_positions[m]

(* the signed volume the investor records of this step have booked on id *)
RECURSIVE InvestorVolume(_, _)
InvestorVolume(trades, id) ==
    IF trades = <<>> THEN 0
    ELSE (IF Head(trades).mm_id = id /\ Head(trades).inv_id # None
          THEN Head(trades).vol ELSE 0)
         + InvestorVolume(Tail(trades), id)

(* C32: market-makers hedge one after the other in list order.  During the *)
(* hedging phase every net_position is the position after the investor     *)
(* trades plus all hedge volumes booked on the market-maker so far in the  *)
(* step; the hedge a market-maker executes is computed from that position  *)
(* (against its sign, its size being x0 of its magnitude), the hedges in   *)
(* which it was the maker of an earlier market-maker included; and the     *)
(* takers appear in the hedge log in increasing list order.                *)
C32_SequentialHedging ==
    /\ [](pc = "hedging" =>
            \A m \in MMs :
               net_position[m] = StepStartPos(m)
                                   + InvestorVolume(current_step_trades, MMId(m))
                                   + HedgedSoFar(current_step_trades, MMId(m)))
    /\ [][ HedgeExecuted =>
             LET h == Last(step_log'.hedge_trades)
                 mm == hedge_idx
                 pos == StepStartPos(mm) + InvestorVolume(current_step_trades, MMId(mm))
                          + HedgedSoFar(current_step_trades, MMId(mm))
             IN /\ h.taker = MMId(mm)
                /\ pos # 0
                /\ Sign(h.vol) = 0 - Sign(pos)
                /\ \E x0 \in solve_almgren_chriss(Abs(pos)) :
                      Abs(h.vol) = (x0[1] * Abs(pos)) \div x0[2]
                /\ \A k \in 1..Len(step_log.hedge_trades) :
                      IdxOf(step_log.hedge_trades[k].taker) < mm
         ]_vars

(* MM_1 made no investor trade in this step, became long as the maker of   *)
(* MM_0's hedge and then hedged that position itself                       *)
C32_Witness ==
    /\ num_mm = 2
    /\ pc = "settle"
    /\ InvestorVolume(current_step_trades, MMId(1)) = 0
    /\ Len(step_log.hedge_trades) = 2
    /\ step_log.hedge_trades[1].maker = MMId(1)
    /\ step_log.hedge_trades[2].taker = MMId(1)


(* C33: no market-maker id is a key of any investor_tiers or               *)
(* investor_yield_ema mapping, nor would the settlement of the current     *)
(* step's bucket make it one (hedge records carry no investor id); so the  *)
(* spread paid in every executed hedge is the quote for the worst tier     *)
(* NUM_TIERS - 1, i.e. the tier-0 spread for the hedge volume plus         *)
(* MM_DELTA_TIER * (NUM_TIERS - 1), whatever the maker's net_position is.  *)
C33_HedgeQuoteWorstTier ==
    /\ [](\A m, k \in MMs :
            /\ MMId(k) \notin DOMAIN investor_tiers[m]
            /\ ~HasYield(investor_yield_ema[m], MMId(k))
            /\ ~HasYield(SettleYield(investor_yield_ema[m], current_step_trades,
                                     MMId(m), mid_price), MMId(k)))
    /\ [][ HedgeExecuted =>
             LET h == Last(step_log'.hedge_trades)
                 vol == Abs(h.vol)
                 best == get_quote_spread([x \in {h.taker} |-> 0], current_s0, h.taker, vol)
             IN /\ h.spread_paid = (best + MM_DELTA_TIER * (NUM_TIERS - 1)) * vol
                /\ h.spread_paid = get_quote_spread(<<>>, current_s0, h.taker, vol) * vol
         ]_vars

(* a hedge was executed whose maker had traded with an investor in the     *)
(* same step, so that it quoted the hedge with a position of its own       *)
C33_Witness ==
    /\ pc \in {"hedging", "settle"}
    /\ Len(step_log.hedge_trades) >= 1
    /\ InvestorVolume(current_step_trades, step_log.hedge_trades[1].maker) # 0
    /\ InvestorVolume(current_step_trades, step_log.hedge_trades[1].taker) # 0


(* C34: the solver's fraction lying in [0, 1], an executed hedge leaves    *)
(* the taker with a position of the same sign as before or 0 and of a      *)
(* magnitude <= the magnitude before: it never increases the taker's       *)
(* exposure and never flips it.                                            *)
C34_HedgeReducesExposure ==
    /\ [](\A x \in X0Values : 0 <= x[1] /\ x[1] <= x[2])
    /\ [][ HedgeExecuted =>
             LET mm == hedge_idx
                 before == net_position[mm]
                 after == net_position'[mm]
             IN /\ IdxOf(Last(step_log'.hedge_trades).taker) = mm
                /\ after = before + Last(step_log'.hedge_trades).vol
                /\ Sign(after) \in {0, Sign(before)}
                /\ Abs(after) <= Abs(before)
         ]_vars

(* MM_0 has hedged a part of the position the investor trades left it      *)
(* with: it still holds some of it                                         *)
C34_Witness ==
    /\ num_mm = 2
    /\ pc = "hedging"
    /\ hedge_idx = 1
    /\ Len(step_log.hedge_trades) = 1
    /\ net_position[0] # 0
    /\ Abs(net_position[0]) < Abs(InvestorVolume(current_step_trades, MMId(0)))


(* C35: in a simulation with exactly one market-maker no hedge is ever     *)
(* executed: the hedge log of the step in progress and of every step log   *)
(* in the history is empty, the step's bucket holds investor records only, *)
(* c_hedge is 0 in every reward entry and in the entry the settlement of   *)
(* the step in progress computes, and net_position changes only in a       *)
(* transition that executes an investor trade, by that trade's volume.     *)
C35_SingleMakerNeverHedges ==
    /\ [](num_mm = 1 =>
            /\ step_log.hedge_trades = <<>>
            /\ \A k \in 1..Len(history) : history[k].hedge_trades = <<>>
            /\ \A k \in 1..Len(current_step_trades) : current_step_trades[k].inv_id # None
            /\ \A k \in 1..Len(rewards[0]) : rewards[0][k].c_hedge = 0
            /\ pc = "settle" => RewardEntry(0, <<>>, 0).c_hedge = 0)
    /\ [][ (num_mm = 1 /\ net_position' # net_position) =>
             /\ TradeExecuted
             /\ net_position'[0] = net_position[0] + Last(step_log'.investor_trades).vol
         ]_vars

(* the only market-maker went through its hedging iteration with a         *)
(* position from two investor trades and kept it                           *)
C35_Witness ==
    /\ num_mm = 1
    /\ pc = "settle"
    /\ Len(step_log.investor_trades) = 2
    /\ net_position[0] # 0
    /\ step_log.hedge_trades = <<>>


(* C36: for every investor trade of the step in progress, the spread_rev   *)
(* of its trade record equals what the trade adds to its maker's r_spread, *)
(* |exec_price - mid| * volume, whatever position the maker quoted from.   *)
C36_SpreadRevenueAgrees ==
    \A k \in 1..Len(step_log.investor_trades) :
       LET t == step_log.investor_trades[k]
           rec == current_step_trades[k]
       IN /\ rec.mm_id = t.mm
          /\ rec.inv_id = t.inv
          /\ rec.spread_rev = Abs(t.price - step_log.mid_price) * Abs(t.vol)


(* C37: for every hedge of step t (its taker record followed by its maker  *)
(* record in bucket t), once a run() that was to reach step t + TM_DELAY   *)
(* is over, both market-makers have the reward entry of that step and the  *)
(* two records' position revenues at its mid price sum to 0; and the       *)
(* maker's reward entry of step t holds as r_spread the spread of its      *)
(* investor trades only, the hedge spread being credited nowhere.          *)
C37_HedgeRevenueCancels ==
    \A t \in 1..Len(trade_queue) : \A k \in 1..(Len(trade_queue[t]) - 1) :
       LET a == trade_queue[t][k]
           b == trade_queue[t][k + 1]
           s == t + TM_DELAY
       IN (/\ a.inv_id = None /\ a.spread_rev = 0
           /\ b.inv_id = None /\ b.spread_rev > 0
           /\ RunOver /\ RunTarget >= s) =>
             /\ b.vol = 0 - a.vol
             /\ Len(history) >= s
             /\ Len(rewards[IdxOf(a.mm_id)]) >= s
             /\ Len(rewards[IdxOf(b.mm_id)]) >= s
             /\ PosRevOf(a, history[s].mid_price) + PosRevOf(b, history[s].mid_price) = 0
             /\ rewards[IdxOf(b.mm_id)][t].r_spread =
                   SpreadRev(history[t].investor_trades, b.mm_id, history[t].mid_price)


(* C38: a call of update_tiering ranks investors of equal yield EMA in the *)
(* insertion order of the yield mapping: of two investors with the same    *)
(* yield the one recorded first gets the rank that many places earlier as  *)
(* there are equal-yield entries between them, hence a tier <= the other's *)
(* tier; and a further call with the yields unchanged gives the same       *)
(* tiers.                                                                  *)
C38_StableTies ==
    [][ ret'.op = "update_tiering" =>
          LET ema == investor_yield_ema[0]
              n == Len(ema)
              new == investor_tiers'[0]
          IN /\ investor_yield_ema'[0] = ema
             /\ \A j, k \in 1..n :
                   (j < k /\ ema[j].ema = ema[k].ema) =>
                      /\ RankByYield(ema, j) < RankByYield(ema, k)
                      /\ new[ema[j].id] = TierOfRank(RankByYield(ema, j), n)
                      /\ new[ema[k].id] = TierOfRank(RankByYield(ema, k), n)
                      /\ new[ema[j].id] <= new[ema[k].id]
             /\ update_tiering(new, ema) = new
      ]_vars

(* two investors with the same yield were ranked and the one recorded      *)
(* first got the strictly better tier                                      *)
C38_Witness ==
    /\ ret.op = "update_tiering"
    /\ \E j, k \in 1..Len(investor_yield_ema[0]) :
          /\ j < k
          /\ investor_yield_ema[0][j].ema = investor_yield_ema[0][k].ema
          /\ investor_yield_ema[0][j].id \in DOMAIN investor_tiers[0]
          /\ investor_yield_ema[0][k].id \in DOMAIN investor_tiers[0]
          /\ investor_tiers[0][investor_yield_ema[0][j].id]
                < investor_tiers[0][investor_yield_ema[0][k].id]


(* C39: once the sim.run() of run_internalization_experiment (a simulation *)
(* with two market-makers) is over it has returned, so that the experiment *)
(* goes on to its last statement and returns, and the value that statement *)
(* leaves in cfg.MM_DELTA_TIER is the default of core/config.py.           *)
C39_DeltaTierRestored ==
    (num_mm = 2 /\ step_count >= 1 /\ RunOver) =>
        /\ pc = "idle"
        /\ MM_DELTA_TIER_RESTORED = MM_DELTA_TIER

====
